---- MODULE Spec2Model ----
(***************************************************************************)
(* Model of the reservation calendar (ReservationCalendar.tsx) and of the  *)
(* status pipeline (Pipeline component) of the equipment rental panel.     *)
(*                                                                         *)
(* Dates are calendar days of one non-leap year, numbered 1..365 (day of   *)
(* year); a JavaScript Date built from a date string or from               *)
(* (year, month, day) is that number, getDate() is Dom, getMonth() is      *)
(* MonthOf (1-based here).  Time zones are taken to be UTC.                *)
(***************************************************************************)
EXTENDS Integers, Sequences, FiniteSets, Bags, TLC

(* ------------------------------ bounds -------------------------------- *)

\* The months the calendar can be navigated to are 1..MaxMonth.
MaxMonth == 3
\* At most MaxDb reservations in the reservations table.
MaxDb == 2
\* At most MaxFetches reservation fetches in flight.
MaxFetches == 2
\* At most MaxCalls pipeline handler invocations awaiting a reply.
MaxCalls == 2
\* At most MaxNotes change notifications not yet delivered.
MaxNotes == 1
MaxMounts == 2
MaxTime == 16

(* ----------------------------- calendar ------------------------------- *)

Months == 1..MaxMonth

\* new Date(year, month + 1, 0).getDate() for a non-leap year
DaysIn(m) == <<31, 28, 31, 30, 31, 30, 31, 31, 30, 31, 30, 31>>[m]

RECURSIVE DaysBefore(_)
DaysBefore(m) == IF m = 1 THEN 0 ELSE DaysBefore(m - 1) + DaysIn(m - 1)

\* new Date(year, month, day), as a day of the year
MkDate(m, d) == DaysBefore(m) + d

\* Date.getMonth() (1-based) and Date.getDate()
MonthOf(date) == CHOOSE m \in 1..12 : DaysBefore(m) < date /\ date <= DaysBefore(m) + DaysIn(m)
Dom(date) == date - DaysBefore(MonthOf(date))

Max(a, b) == IF a >= b THEN a ELSE b
Min(a, b) == IF a <= b THEN a ELSE b

Range(s) == {s[i] : i \in DOMAIN s}

\* All orderings of a finite set, as sequences without repetition.
Perms(S) == {s \in [1..Cardinality(S) -> S] : Range(s) = S}

(* --------------------------- the data -------------------------------- *)

\* The equipment table, ordered by name (loadEquipment).
EquipmentList == <<"E1", "E2">>

\* Two customers; a name is the sequence of its characters.
Kowalski_Jan ==
  [first_name |-> <<"J", "a", "n">>,
   last_name |-> <<"K", "o", "w", "a", "l", "s", "k", "i">>]

Nowak_Anna ==
  [first_name |-> <<"A", "n", "n", "a">>,
   last_name |-> <<"N", "o", "w", "a", "k">>]

\* The reservations the table may hold: id, closed interval [start, end],
\* the equipment lines of its reservation_items, its status, its customer
\* and the times of day of pick-up and return.
ResPool ==
  { [id |-> "A", start |-> MkDate(2, 1), end |-> MkDate(2, 5),
     equip |-> {"E1"}, status |-> "confirmed", customer |-> Kowalski_Jan,
     start_time |-> "10:00", end_time |-> "16:00"],
    [id |-> "B", start |-> MkDate(2, 3), end |-> MkDate(2, 7),
     equip |-> {"E1"}, status |-> "pending", customer |-> Nowak_Anna,
     start_time |-> "10:00", end_time |-> "16:00"],
    [id |-> "C", start |-> MkDate(2, 14), end |-> MkDate(2, 14),
     equip |-> {"E1", "E2"}, status |-> "confirmed", customer |-> Kowalski_Jan,
     start_time |-> "10:00", end_time |-> "16:00"],
    [id |-> "D", start |-> MkDate(1, 30), end |-> MkDate(2, 2),
     equip |-> {"E1"}, status |-> "confirmed", customer |-> Nowak_Anna,
     start_time |-> "10:00", end_time |-> "16:00"],
    [id |-> "E", start |-> MkDate(2, 27), end |-> MkDate(3, 2),
     equip |-> {"E2"}, status |-> "pending", customer |-> Kowalski_Jan,
     start_time |-> "10:00", end_time |-> "16:00"],
    [id |-> "F", start |-> MkDate(1, 10), end |-> MkDate(1, 15),
     equip |-> {"E1"}, status |-> "confirmed", customer |-> Nowak_Anna,
     start_time |-> "10:00", end_time |-> "16:00"],
    [id |-> "G", start |-> MkDate(2, 10), end |-> MkDate(2, 12),
     equip |-> {"EX"}, status |-> "confirmed", customer |-> Kowalski_Jan,
     start_time |-> "10:00", end_time |-> "16:00"],
    [id |-> "H", start |-> MkDate(2, 20), end |-> MkDate(2, 22),
     equip |-> {"E2"}, status |-> "cancelled", customer |-> Nowak_Anna,
     start_time |-> "10:00", end_time |-> "16:00"],
    [id |-> "I", start |-> MkDate(1, 1), end |-> MkDate(2, 28),
     equip |-> {"E2"}, status |-> "confirmed", customer |-> Nowak_Anna,
     start_time |-> "10:00", end_time |-> "16:00"],
    [id |-> "J", start |-> MkDate(2, 16), end |-> MkDate(2, 17),
     equip |-> {"E1"}, status |-> "confirmed", customer |-> Nowak_Anna,
     start_time |-> "10:00", end_time |-> "16:00"] }

\* The days of the month new Date() may fall on when the calendar is opened.
InitDays == {15, 31}

VARIABLES
  \* ReservationCalendar
  db,            \* the reservations table (the persistence collaborator)
  equipment,     \* useState<Equipment[]>([])
  reservations,  \* useState<Reservation[]>([])
  currentDate,   \* useState(new Date()): [m, d]
  calLoading,    \* useState(true)
  fetches,       \* reservation queries in flight, each with its window
  \* Pipeline
  srv,           \* the status of each reservation at the persistence collaborator
  columns,       \* useState<PipelineColumn[]>([])
  loading,       \* useState(true)
  error,         \* useState<string | null>(null)
  activeId,      \* useState<string | null>(null)
  dragging,      \* the card DndContext is dragging ("null": none)
  calls,         \* handler invocations suspended at an await
  notes,         \* change notifications not yet delivered to the subscription
  mounted,       \* whether a Pipeline component is mounted
  channels,      \* 'pipeline_updates' channels subscribed and not unsubscribed
  \* CustomerDetailsView
  detSrv,         \* the status of reservation `id` at the persistence collaborator
  details,        \* useState<CustomerDetails | null>(null): its status field
  detailsLoading, \* useState(true)
  detailsError,   \* useState<string | null>(null)
  submitting,     \* useState(false)
  detCalls,       \* handler invocations suspended at an await
  \* AdminLogin
  now,            \* Date.now(), in ticks
  loginAttempts,  \* useState(0)
  lockoutUntil,   \* useState<number | null>(null); 0 stands for null
  storedLockout,  \* localStorage 'adminLoginLockout'; 0 stands for no item
  isLoading,      \* useState(false)
  loginError,     \* useState('')
  submission,     \* the handleSubmit invocation suspended at an await
  loggedIn        \* whether onLogin has been called

calVars == <<db, equipment, reservations, currentDate, calLoading, fetches>>
mountVars == <<mounted, channels>>
pipeVars == <<srv, columns, loading, error, activeId, dragging, calls, notes,
              mounted, channels>>
detVars == <<detSrv, details, detailsLoading, detailsError, submitting, detCalls>>
loginVars == <<now, loginAttempts, lockoutUntil, storedLockout, isLoading,
               loginError, submission, loggedIn>>
vars == <<db, equipment, reservations, currentDate, calLoading, fetches,
          srv, columns, loading, error, activeId, dragging, calls, notes,
          mounted, channels,
          detSrv, details, detailsLoading, detailsError, submitting, detCalls,
          now, loginAttempts, lockoutUntil, storedLockout, isLoading,
          loginError, submission, loggedIn>>

\* The pipeline variables of a behaviour in which no pipeline is mounted.
PipeIdle ==
  /\ srv = <<>> /\ columns = <<>> /\ loading = TRUE /\ error = "null"
  /\ activeId = "null" /\ dragging = "null" /\ calls = EmptyBag
  /\ notes = 0 /\ mounted = FALSE /\ channels = 0

\* The details-view variables of a behaviour in which no details view is
\* mounted.
DetIdle ==
  /\ detSrv = "null" /\ details = "null" /\ detailsLoading = TRUE
  /\ detailsError = "null" /\ submitting = FALSE /\ detCalls = EmptyBag

\* The login variables of a behaviour in which no login form is mounted.
LoginIdle ==
  /\ now = 0 /\ loginAttempts = 0 /\ lockoutUntil = 0 /\ storedLockout = 0
  /\ isLoading = FALSE /\ loginError = ""
  /\ submission = [pc |-> "idle", attempts |-> 0]
  /\ loggedIn = FALSE

\* The calendar variables of a behaviour in which no calendar is mounted.
CalIdle ==
  /\ db = {} /\ equipment = <<>> /\ reservations = <<>>
  /\ currentDate = [m |-> 1, d |-> 1] /\ calLoading = TRUE /\ fetches = EmptyBag

(* ----------------------- ReservationCalendar -------------------------- *)

\* The rows the reservations query selects for the month m:
\* start_date >= startOfMonth, end_date <= endOfMonth, status <> 'cancelled',
\* reservation_items!inner.
QueryReservations(m) ==
  { r \in db : /\ r.start >= MkDate(m, 1)
               /\ r.end <= MkDate(m, DaysIn(m))
               /\ r.status # "cancelled"
               /\ r.equip # {} }

getDaysInMonth == DaysIn(currentDate.m)

\* Mutant of getReservationSpan: the days of the true start and end, unclipped.
getReservationSpan_Unclipped(reservation, monthStart, monthEnd) ==
  LET startDay == Dom(reservation.start)
      endDay == Dom(reservation.end)
  IN [startDay |-> startDay, endDay |-> endDay, span |-> endDay - startDay + 1]

getReservationSpan(reservation, monthStart, monthEnd) ==
  LET startDay == IF reservation.start < monthStart THEN 1 ELSE Dom(reservation.start)
      endDay == IF reservation.end > monthEnd THEN Dom(monthEnd) ELSE Dom(reservation.end)
  IN [startDay |-> startDay, endDay |-> endDay, span |-> endDay - startDay + 1]

\* Date.setMonth(m) on a date: the day of the month is kept, and a day past
\* the end of month m runs over into the following month.
SetMonth(date, m) ==
  IF date.d <= DaysIn(m) THEN [m |-> m, d |-> date.d]
  ELSE [m |-> m + 1, d |-> date.d - DaysIn(m)]

CalInit ==
  /\ db \in {S \in SUBSET ResPool : Cardinality(S) <= MaxDb}
  /\ equipment = <<>>
  /\ reservations = <<>>
  /\ currentDate \in {[m |-> m, d |-> d] : m \in Months, d \in InitDays \cap (1..31)}
  /\ currentDate.d <= DaysIn(currentDate.m)
  /\ calLoading = TRUE
  /\ fetches = SetToBag({[win |-> currentDate.m]})
  /\ PipeIdle
  /\ DetIdle
  /\ LoginIdle

\* loadEquipment returns: the list, or an error that leaves the state alone.
LoadEquipmentReturn ==
  /\ \E ok \in BOOLEAN :
       equipment' = IF ok THEN EquipmentList ELSE equipment
  /\ UNCHANGED <<db, reservations, currentDate, calLoading, fetches, pipeVars, detVars, loginVars>>

\* The previous/next month buttons: setCurrentDate, and the effect on
\* [currentDate] calls loadEquipment and loadReservations.
ChangeMonth(delta) ==
  /\ currentDate.m + delta \in Months
  /\ SetMonth(currentDate, currentDate.m + delta).m \in Months
  /\ BagCardinality(fetches) < MaxFetches
  /\ currentDate' = SetMonth(currentDate, currentDate.m + delta)
  /\ fetches' = fetches (+) SetToBag({[win |-> currentDate'.m]})
  /\ UNCHANGED <<db, equipment, reservations, calLoading, pipeVars, detVars, loginVars>>

PreviousMonth == ChangeMonth(-1)
NextMonth == ChangeMonth(1)

\* loadReservations after its await: an error returns early, a result is
\* stored (in the order the query happened to return it) and ends loading.
LoadReservationsReturn ==
  \E f \in BagToSet(fetches) :
    /\ fetches' = fetches (-) SetToBag({f})
    /\ \/ /\ \E data \in Perms(QueryReservations(f.win)) : reservations' = data
          /\ calLoading' = FALSE
       \/ UNCHANGED <<reservations, calLoading>>
    /\ UNCHANGED <<db, equipment, currentDate, pipeVars, detVars, loginVars>>

CalNext ==
  \/ LoadEquipmentReturn
  \/ PreviousMonth
  \/ NextMonth
  \/ LoadReservationsReturn

SpecCalendar == CalInit /\ [][CalNext]_vars

(* ------------------------- the grid rows ------------------------------ *)

monthStart == MkDate(currentDate.m, 1)

\* Mutant of monthEnd: day 0 of the month, the last day of the month before.
monthEnd_DayZero == MkDate(currentDate.m, 0)

monthEnd == MkDate(currentDate.m, DaysIn(currentDate.m))

\* reservations.filter(r => r.reservation_items.some(ri => ri.equipment_id === item))
itemReservations(item) == SelectSeq(reservations, LAMBDA r : item \in r.equip)

\* Whether the find predicate accepts reservation r for the cell of dayIndex.
CoversDay(r, dayIndex) ==
  LET sp == getReservationSpan(r, monthStart, monthEnd)
  IN dayIndex + 1 >= sp.startDay /\ dayIndex + 1 <= sp.endDay

\* itemReservations.find(...): the index of the first reservation of the
\* row's list whose span covers the day, 0 when there is none.
FindReservation(item, dayIndex) ==
  LET rs == itemReservations(item)
      hits == {i \in DOMAIN rs : CoversDay(rs[i], dayIndex)}
  IN IF hits = {} THEN 0 ELSE CHOOSE i \in hits : \A j \in hits : i <= j

\* What the row of item emits for the cell of dayIndex: a span element
\* (gridColumn: span n) on the first day of the reservation found, nothing
\* (null) on its other days, an empty cell when no reservation is found.
Cell(item, dayIndex) ==
  LET i == FindReservation(item, dayIndex)
      r == itemReservations(item)[i]
      sp == getReservationSpan(r, monthStart, monthEnd)
  IN IF i = 0 THEN [kind |-> "empty", id |-> "-", span |-> 1]
     ELSE IF dayIndex + 1 = sp.startDay
          THEN [kind |-> "span", id |-> r.id, span |-> sp.span]
          ELSE [kind |-> "null", id |-> r.id, span |-> 0]

\* The row of one equipment line: Array.from({length: getDaysInMonth()}).map(...)
Row(item) == [k \in 1..getDaysInMonth |-> Cell(item, k - 1)]

\* The grid columns a row's elements take up.
RECURSIVE SumSpans(_)
SumSpans(row) == IF row = <<>> THEN 0 ELSE Head(row).span + SumSpans(Tail(row))

(* ------------------------ the label of a span ------------------------- *)
\* A label is the sequence of the pieces of the template string; a number
\* is the piece of its decimal digits.

\* `${lastName} ${firstName}`
formatCustomerName(firstName, lastName) == lastName \o <<" ">> \o firstName

\* `${lastName.substring(0, 4)}\n${new Date(date).getDate()}`
formatShortCell(lastName, date) ==
  SubSeq(lastName, 1, Min(4, Len(lastName))) \o <<"\n", ToString(Dom(date))>>

\* days is the difference of the two dates in days (both are midnights, so
\* Math.ceil changes nothing).
formatDateRange(startDate, endDate, startTime, endTime) ==
  LET days == endDate - startDate
  IN IF days >= 4
     THEN <<ToString(Dom(startDate)), ".", ToString(MonthOf(startDate)), " ",
            startTime, " - ",
            ToString(Dom(endDate)), ".", ToString(MonthOf(endDate)), " ",
            endTime>>
     ELSE <<ToString(Dom(startDate)), "-", ToString(Dom(endDate))>>

\* Mutant of getReservationContent: the last branch uses formatShortCell.
getReservationContent_ShortCell(reservation, cellWidth, isMultiDay) ==
  LET lastName == reservation.customer.last_name
      firstName == reservation.customer.first_name
      days == reservation.end - reservation.start
      dateRange == formatDateRange(reservation.start, reservation.end,
                                   reservation.start_time, reservation.end_time)
  IN IF days >= 4
     THEN formatCustomerName(firstName, lastName) \o <<"\n">> \o dateRange
     ELSE IF days >= 2 /\ days <= 3
     THEN (IF cellWidth < 100
           THEN lastName \o <<" ", firstName[1], ".">>
           ELSE lastName \o <<" ">> \o firstName) \o <<"\n">> \o dateRange
     ELSE formatShortCell(lastName, reservation.start)

getReservationContent(reservation, cellWidth, isMultiDay) ==
  LET lastName == reservation.customer.last_name
      firstName == reservation.customer.first_name
      days == reservation.end - reservation.start
      dateRange == formatDateRange(reservation.start, reservation.end,
                                   reservation.start_time, reservation.end_time)
  IN IF days >= 4
     THEN formatCustomerName(firstName, lastName) \o <<"\n">> \o dateRange
     ELSE IF days >= 2 /\ days <= 3
     THEN (IF cellWidth < 100
           THEN lastName \o <<" ", firstName[1], ".">>
           ELSE lastName \o <<" ">> \o firstName) \o <<"\n">> \o dateRange
     ELSE lastName \o <<"\n", ToString(Dom(reservation.start))>>

\* Math.floor(1240 / getDaysInMonth())
cellWidth == 1240 \div getDaysInMonth

\* The text of the span element the row of item emits for the cell of
\* dayIndex (<<>>: the cell is no span element).
CellContent(item, dayIndex) ==
  LET i == FindReservation(item, dayIndex)
      r == itemReservations(item)[i]
      sp == getReservationSpan(r, monthStart, monthEnd)
  IN IF Cell(item, dayIndex).kind = "span"
     THEN getReservationContent(r, cellWidth, sp.span > 1)
     ELSE <<>>

(* ------------------- properties of the calendar grid ------------------ *)

\* The days of reservation r that lie in the visible month.
VisibleDays(r) == {d \in monthStart..monthEnd : r.start <= d /\ d <= r.end}

\* The reservation the row of item selects for the cell of date d ("-": none).
Occupant(item, d) ==
  LET i == FindReservation(item, Dom(d) - 1)
  IN IF i = 0 THEN "-" ELSE itemReservations(item)[i].id

\* The calendar shows the result of the query for the visible month.
Fresh == ~calLoading /\ Range(reservations) = QueryReservations(currentDate.m)

\* The positions of row at which reservation id has a span element.
Anchors(row, id) == {k \in DOMAIN row : row[k].kind = "span" /\ row[k].id = id}

\* C3: of two reservations of one equipment line whose visible spans
\* overlap, the one with the earlier true start occupies every conflicting
\* cell, whatever the order of the reservation list.
C3_EarlierStartOccupiesConflict ==
  Fresh =>
    \A item \in Range(equipment) :
      \A r1, r2 \in Range(itemReservations(item)) :
        r1.start < r2.start =>
          \A d \in VisibleDays(r1) \cap VisibleDays(r2) : Occupant(item, d) = r1.id

\* C4: no reservation-day is lost: on every equipment line the day-cells of
\* the emitted spans (the program keeps no overflow list, so overflow adds
\* nothing) are as many as the (reservation, day) pairs of the line's
\* reservations within the visible month.
RECURSIVE SumVisible(_)
SumVisible(rs) ==
  IF rs = <<>> THEN 0 ELSE Cardinality(VisibleDays(Head(rs))) + SumVisible(Tail(rs))

C4_NoDayLost ==
  Fresh =>
    \A item \in Range(equipment) :
      SumSpans(SelectSeq(Row(item), LAMBDA c : c.kind = "span"))
        = SumVisible(itemReservations(item))

\* C5: every reservation placed in a row (selected for at least one of its
\* cells) has exactly one span element, at the day of its clipped start and
\* as long as its clipped interval; the other days of that interval emit
\* nothing, and no day outside it is attributed to the reservation.
C5_OneAnchoredSpan ==
  Fresh =>
    \A item \in Range(equipment) :
      \A r \in Range(itemReservations(item)) :
        (\E d \in monthStart..monthEnd : Occupant(item, d) = r.id) =>
          LET row == Row(item)
              cs == Max(r.start, monthStart)
              ce == Min(r.end, monthEnd)
          IN /\ Anchors(row, r.id) = {Dom(cs)}
             /\ row[Dom(cs)].span = ce - cs + 1
             /\ \A k \in DOMAIN row :
                  /\ (Dom(cs) < k /\ k <= Dom(ce)) => row[k].kind = "null"
                  /\ (k < Dom(cs) \/ k > Dom(ce)) => row[k].id # r.id

\* C6: every equipment row takes up exactly as many grid columns as the
\* visible month has days.
C6_RowWidthIsDaysInMonth ==
  \A item \in Range(equipment) : SumSpans(Row(item)) = getDaysInMonth

\* C7: a reservation (not cancelled) is in the row of line L exactly when
\* its equipment includes L and its interval intersects the visible month.
C7_ShownIffIntersects ==
  Fresh =>
    \A r \in db : r.status # "cancelled" =>
      \A item \in Range(equipment) :
        (r \in Range(itemReservations(item)))
          <=> (item \in r.equip /\ VisibleDays(r) # {})

\* C8: for every reservation that intersects the visible month, the span is
\* the interval clipped to the month: startDay is the day of
\* max(start, monthStart), endDay the day of min(end, monthEnd),
\* 1 <= startDay <= endDay <= days in the month, span = endDay - startDay + 1,
\* and a bound is replaced by the month's exactly when it lies outside the month.
C8_SpanIsClippedInterval ==
  \A r \in db :
    VisibleDays(r) # {} =>
      LET sp == getReservationSpan(r, monthStart, monthEnd)
          cs == Max(r.start, monthStart)
          ce == Min(r.end, monthEnd)
      IN /\ sp.startDay = Dom(cs) /\ sp.endDay = Dom(ce)
         /\ 1 <= sp.startDay /\ sp.startDay <= sp.endDay /\ sp.endDay <= getDaysInMonth
         /\ sp.span = ce - cs + 1 /\ sp.span >= 1
         /\ sp.startDay = (IF r.start < monthStart THEN Dom(monthStart) ELSE Dom(r.start))
         /\ sp.endDay = (IF r.end > monthEnd THEN Dom(monthEnd) ELSE Dom(r.end))

\* A reservation that begins before the visible month and one that ends
\* after it, each clipped to the month.
C8_Witness ==
  /\ \E r \in db : /\ r.start < monthStart /\ r.end >= monthStart
                   /\ getReservationSpan(r, monthStart, monthEnd).startDay = 1
  /\ \E r \in db : /\ r.end > monthEnd /\ r.start <= monthEnd
                   /\ getReservationSpan(r, monthStart, monthEnd).endDay = getDaysInMonth

\* C10: the result of a fetch issued for a month that is no longer the
\* visible one is discarded on arrival.
C10_StaleFetchDiscarded ==
  [][\A f \in BagToSet(fetches) :
       (f.win # currentDate.m /\ fetches' = fetches (-) SetToBag({f}))
         => reservations' = reservations]_vars

(* ------------------------------ Pipeline ------------------------------ *)

ResIds == {"r1", "r2"}

\* The reservations whose status is changed in a behaviour (by this
\* administrator's clicks and drags, or by another administrator); the
\* others are cards that stay where they are.
Handled == {"r1"}

\* The closed set of statuses; each is the id of a pipeline column.
ColumnOrder == <<"pending", "confirmed", "picked_up", "completed", "cancelled", "archived">>
Statuses == Range(ColumnOrder)

\* The ids a drag ends over in a behaviour: a column, a card, or nothing
\* ("null").
OverIds == {"pending", "confirmed"} \cup ResIds \cup {"null"}

\* The statuses another administrator sets in a behaviour.
ExternalStatuses == {"cancelled"}

\* get_pipeline_data: one column per status, holding the reservations that
\* are in that status (the order inside a column plays no part here).
PipelineSnapshot(s) ==
  [k \in DOMAIN ColumnOrder |->
     [id |-> ColumnOrder[k], reservations |-> {r \in ResIds : s[r] = ColumnOrder[k]}]]

\* update_reservation_pipeline_status: an accepted change stores the status.
UpdateStatus(s, id, newStatus) == [s EXCEPT ![id] = newStatus]

\* A handler invocation suspended at an await: at pc "rpc" it waits for
\* update_reservation_pipeline_status(id, newStatus), at pc "load" for
\* get_pipeline_data, whose reply res ("none" until the server has answered)
\* carries the columns cols.
Call(kind, pc, id, newStatus) ==
  [kind |-> kind, pc |-> pc, id |-> id, newStatus |-> newStatus, res |-> "none", cols |-> <<>>]

\* What the component renders is the board (not the spinner, not the error).
Rendered == ~loading /\ error = "null"

findReservation(id) ==
  IF \E k \in DOMAIN columns : id \in columns[k].reservations THEN id ELSE "null"

\* The id of the column the card of reservation id sits in ("null": none).
ColumnOf(id) ==
  IF \E k \in DOMAIN columns : id \in columns[k].reservations
  THEN columns[CHOOSE k \in DOMAIN columns : id \in columns[k].reservations].id
  ELSE "null"

\* The status buttons a card offers, by the column it is in.
CardButtons(columnId) ==
  IF columnId = "pending" THEN {"confirmed", "cancelled"}
  ELSE IF columnId = "confirmed" THEN {"completed"}
  ELSE {}

PipeInit ==
  /\ CalIdle
  /\ DetIdle
  /\ LoginIdle
  /\ srv \in {s \in [ResIds -> {"pending", "confirmed"}] : \A r \in ResIds \ Handled : s[r] = "confirmed"}
  /\ columns = <<>>
  /\ loading = TRUE
  /\ error = "null"
  /\ activeId = "null"
  /\ dragging = "null"
  /\ calls = SetToBag({Call("load", "load", "-", "-")})
  /\ notes = 0
  /\ mounted = TRUE
  /\ channels = 1

\* Mutant of handleStatusChange: the card is moved to the requested column
\* at once, before the collaborator has answered.
handleStatusChange_Optimistic(reservationId, newStatus) ==
  /\ Rendered
  /\ newStatus \in CardButtons(ColumnOf(reservationId))
  /\ BagCardinality(calls) < MaxCalls
  /\ calls' = calls (+) SetToBag({Call("status", "rpc", reservationId, newStatus)})
  /\ columns' = [k \in DOMAIN columns |->
                   [columns[k] EXCEPT !.reservations =
                      IF columns[k].id = newStatus
                      THEN @ \cup {reservationId}
                      ELSE @ \ {reservationId}]]
  /\ UNCHANGED <<srv, loading, error, activeId, dragging, notes, calVars, detVars, mountVars, loginVars>>

\* A click on a status button of a card: handleStatusChange up to its first await.
handleStatusChange(reservationId, newStatus) ==
  /\ Rendered
  /\ newStatus \in CardButtons(ColumnOf(reservationId))
  /\ BagCardinality(calls) < MaxCalls
  /\ calls' = calls (+) SetToBag({Call("status", "rpc", reservationId, newStatus)})
  /\ UNCHANGED <<srv, columns, loading, error, activeId, dragging, notes, calVars, detVars, mountVars, loginVars>>

handleDragStart(id) ==
  /\ Rendered
  /\ dragging = "null"
  /\ findReservation(id) # "null"
  /\ activeId' = id
  /\ dragging' = id
  /\ UNCHANGED <<srv, columns, loading, error, calls, notes, calVars, detVars, mountVars, loginVars>>

\* handleDragEnd up to its first await (or to its end when it awaits nothing).
handleDragEnd(over) ==
  /\ Rendered
  /\ dragging # "null"
  /\ dragging' = "null"
  /\ IF over = "null"
     THEN UNCHANGED <<activeId, calls>>
     ELSE LET activeReservation == findReservation(dragging)
              newStatus == over
          IN IF activeReservation # "null" /\ activeReservation # newStatus
             THEN /\ BagCardinality(calls) < MaxCalls
                  /\ calls' = calls (+) SetToBag({Call("drag", "rpc", activeReservation, newStatus)})
                  /\ UNCHANGED activeId
             ELSE /\ activeId' = "null"
                  /\ UNCHANGED calls
  /\ UNCHANGED <<srv, columns, loading, error, notes, calVars, detVars, mountVars, loginVars>>

\* The update call of a handler returns: accepted (the status is stored and
\* the change is notified), refused (an error result, which neither handler
\* reads), or the call throws.  After a result the handler goes on to
\* loadPipelineData, which sets loading and awaits get_pipeline_data; the
\* spinner replaces the board, which ends a drag under way.
UpdateReturns(c) ==
  /\ c.pc = "rpc"
  /\ \/ /\ c.newStatus \in Statuses
        /\ notes < MaxNotes
        /\ srv' = UpdateStatus(srv, c.id, c.newStatus)
        /\ notes' = notes + 1
        /\ calls' = (calls (-) SetToBag({c})) (+) SetToBag({Call(c.kind, "load", "-", "-")})
        /\ loading' = TRUE
        /\ dragging' = "null"
        /\ UNCHANGED <<error, activeId>>
     \/ /\ calls' = (calls (-) SetToBag({c})) (+) SetToBag({Call(c.kind, "load", "-", "-")})
        /\ loading' = TRUE
        /\ dragging' = "null"
        /\ UNCHANGED <<srv, notes, error, activeId>>
     \/ /\ calls' = calls (-) SetToBag({c})
        /\ error' = "update"
        /\ activeId' = IF c.kind = "drag" THEN "null" ELSE activeId
        /\ UNCHANGED <<srv, notes, loading, dragging>>
  /\ UNCHANGED <<columns, calVars, detVars, mountVars, loginVars>>

\* The server answers a get_pipeline_data call: the columns as they are now,
\* a reply without columns, or an error.
PipelineDataServed(c) ==
  /\ c.pc = "load" /\ c.res = "none"
  /\ \E reply \in { [res |-> "data", cols |-> PipelineSnapshot(srv)],
                    [res |-> "nodata", cols |-> <<>>],
                    [res |-> "error", cols |-> <<>>] } :
       calls' = (calls (-) SetToBag({c}))
                  (+) SetToBag({[c EXCEPT !.res = reply.res, !.cols = reply.cols]})
  /\ UNCHANGED <<srv, columns, loading, error, activeId, dragging, notes, calVars, detVars, mountVars, loginVars>>

\* Mutant of LoadedColumns: the reply is merged into the columns on view
\* (cards already shown stay, fetched cards are added) instead of replacing them.
LoadedColumns_Patched(c) ==
  IF c.res # "data" THEN columns
  ELSE IF columns = <<>> THEN c.cols
  ELSE [k \in DOMAIN c.cols |->
          [c.cols[k] EXCEPT !.reservations = @ \cup columns[k].reservations]]

\* What loadPipelineData stores for a reply.
LoadedColumns(c) == IF c.res = "data" THEN c.cols ELSE <<>>

\* loadPipelineData after its await, and then the rest of the handler that
\* called it (handleDragEnd clears activeId).
loadPipelineDataReturns(c) ==
  /\ c.pc = "load" /\ c.res # "none"
  /\ calls' = calls (-) SetToBag({c})
  /\ IF c.res = "error"
     THEN error' = "load" /\ UNCHANGED columns
     ELSE columns' = LoadedColumns(c) /\ UNCHANGED error
  /\ loading' = FALSE
  /\ activeId' = IF c.kind = "drag" THEN "null" ELSE activeId
  /\ UNCHANGED <<srv, dragging, notes, calVars, detVars, mountVars, loginVars>>

\* The subscription callback: a change notification calls loadPipelineData.
ChangeNotified ==
  /\ notes > 0
  /\ BagCardinality(calls) < MaxCalls
  /\ notes' = notes - 1
  /\ calls' = calls (+) SetToBag({Call("load", "load", "-", "-")})
  /\ loading' = TRUE
  /\ dragging' = "null"
  /\ UNCHANGED <<srv, columns, error, activeId, calVars, detVars, mountVars, loginVars>>

\* Another administrator changes the status of a reservation.
ExternalChange(id, newStatus) ==
  /\ notes < MaxNotes
  /\ srv[id] # newStatus
  /\ srv' = UpdateStatus(srv, id, newStatus)
  /\ notes' = notes + 1
  /\ UNCHANGED <<columns, loading, error, activeId, dragging, calls, calVars, detVars, mountVars, loginVars>>

PipeNext ==
  \/ \E id \in Handled, s \in Statuses : handleStatusChange(id, s)
  \/ \E id \in Handled : handleDragStart(id)
  \/ \E over \in OverIds : handleDragEnd(over)
  \/ \E c \in BagToSet(calls) : UpdateReturns(c)
  \/ \E c \in BagToSet(calls) : PipelineDataServed(c)
  \/ \E c \in BagToSet(calls) : loadPipelineDataReturns(c)
  \/ ChangeNotified
  \/ \E id \in Handled, s \in ExternalStatuses : ExternalChange(id, s)

SpecPipeline == PipeInit /\ [][PipeNext]_vars

(* ------------- the Pipeline is mounted and unmounted ------------------ *)
\* The administrator enters and leaves the pipeline page and touches no
\* card.  A call of an instance that has been unmounted is of kind
\* "orphan": its setState calls change nothing on view.

Orphaned(c) == [c EXCEPT !.kind = "orphan"]

\* n copies of the call c.
Copies(c, n) == IF n = 0 THEN EmptyBag ELSE [x \in {c} |-> n]

\* The component mounts: fresh state, and the effect calls loadPipelineData
\* and subscribeToUpdates, which subscribes a new channel.
PipelineMounts ==
  /\ ~mounted
  /\ channels < MaxMounts
  /\ BagCardinality(calls) < MaxCalls
  /\ mounted' = TRUE
  /\ channels' = channels + 1
  /\ columns' = <<>> /\ loading' = TRUE /\ error' = "null"
  /\ activeId' = "null" /\ dragging' = "null"
  /\ calls' = calls (+) SetToBag({Call("load", "load", "-", "-")})
  /\ UNCHANGED <<srv, notes, calVars, detVars, loginVars>>

\* The component unmounts.  The effect returns no cleanup (the function
\* subscribeToUpdates returns is dropped), so no channel is unsubscribed.
PipelineUnmounts ==
  /\ mounted
  /\ mounted' = FALSE
  /\ calls' = BagOfAll(Orphaned, calls)
  /\ UNCHANGED <<srv, columns, loading, error, activeId, dragging, notes,
                 channels, calVars, detVars, loginVars>>

\* A change notification reaches every subscribed channel, and the callback
\* of each calls the loadPipelineData of the instance that subscribed it.
ChannelsNotified ==
  /\ notes > 0
  /\ BagCardinality(calls) + channels <= MaxCalls
  /\ notes' = notes - 1
  /\ calls' = IF mounted
              THEN calls (+) SetToBag({Call("load", "load", "-", "-")})
                         (+) Copies(Call("orphan", "load", "-", "-"), channels - 1)
              ELSE calls (+) Copies(Call("orphan", "load", "-", "-"), channels)
  /\ loading' = IF mounted THEN TRUE ELSE loading
  /\ UNCHANGED <<srv, columns, error, activeId, dragging, mountVars,
                 calVars, detVars, loginVars>>

\* loadPipelineData of an unmounted instance after its await.
OrphanLoadReturns(c) ==
  /\ c.kind = "orphan" /\ c.pc = "load" /\ c.res # "none"
  /\ calls' = calls (-) SetToBag({c})
  /\ UNCHANGED <<srv, columns, loading, error, activeId, dragging, notes,
                 mountVars, calVars, detVars, loginVars>>

MountNext ==
  \/ PipelineMounts
  \/ PipelineUnmounts
  \/ ChannelsNotified
  \/ \E s \in {"confirmed", "cancelled"} : ExternalChange("r1", s)
  \/ \E c \in BagToSet(calls) : PipelineDataServed(c)
  \/ \E c \in BagToSet(calls) : c.kind # "orphan" /\ loadPipelineDataReturns(c)
  \/ \E c \in BagToSet(calls) : OrphanLoadReturns(c)

SpecMount == PipeInit /\ [][MountNext]_vars

(* ------------------------ CustomerDetailsView ------------------------- *)
\* One details view of one reservation (the route's id).  `details` is the
\* status field of the loaded row, "null" before the first load.  The
\* content of the comment thread is left out; the comment handlers are kept
\* for what they do to `submitting` and to the error state.

DetCall(kind, pc, newStatus) ==
  [kind |-> kind, pc |-> pc, newStatus |-> newStatus, res |-> "none"]

\* The details view shows its card (neither the spinner nor the
\* "Nie znaleziono" page).
DetailsRendered == ~detailsLoading /\ details # "null"

\* Mutant of StatusButtonDisabled: a button is also disabled unless its
\* status comes later in the lifecycle than the current one.
StatusButtonDisabled_ForwardOnly(status) ==
  \/ submitting
  \/ details = status
  \/ \E i, j \in 1..Len(ColumnOrder) :
       ColumnOrder[i] = details /\ ColumnOrder[j] = status /\ j < i

\* disabled={submitting || details.status === status.id}
StatusButtonDisabled(status) == submitting \/ details = status

DetInit ==
  /\ CalIdle
  /\ PipeIdle
  /\ LoginIdle
  /\ detSrv \in Statuses
  /\ details = "null"
  /\ detailsLoading = TRUE
  /\ detailsError = "null"
  /\ submitting = FALSE
  /\ detCalls = SetToBag({DetCall("mount", "load", "-"),
                          DetCall("mount", "loadComments", "-")})

\* A status button is pressed: setSubmitting(true) and the rpc is sent.
Details_handleStatusChange(newStatus) ==
  /\ DetailsRendered
  /\ ~StatusButtonDisabled(newStatus)
  /\ submitting' = TRUE
  /\ detCalls' = detCalls (+) SetToBag({DetCall("status", "rpc", newStatus)})
  /\ UNCHANGED <<detSrv, details, detailsLoading, detailsError, calVars, pipeVars, loginVars>>

\* update_reservation_status resolves.  Accepted: the handler goes on to
\* loadCustomerDetails.  Refused (error result, thrown by the handler) or
\* thrown: catch sets the error, finally clears submitting.
Details_UpdateReturns(c) ==
  /\ c.pc = "rpc"
  /\ \/ /\ detSrv' = c.newStatus
        /\ detCalls' = (detCalls (-) SetToBag({c}))
                         (+) SetToBag({DetCall(c.kind, "load", "-")})
        /\ UNCHANGED <<detailsError, submitting>>
     \/ /\ detailsError' = "update"
        /\ submitting' = FALSE
        /\ detCalls' = detCalls (-) SetToBag({c})
        /\ UNCHANGED detSrv
  /\ UNCHANGED <<details, detailsLoading, calVars, pipeVars, loginVars>>

\* The collaborator answers the select of loadCustomerDetails with the row
\* as it is now, or with an error.
CustomerDetailsServed(c) ==
  /\ c.pc = "load" /\ c.res = "none"
  /\ \E res \in {detSrv, "error"} :
       detCalls' = (detCalls (-) SetToBag({c}))
                     (+) SetToBag({[c EXCEPT !.res = res]})
  /\ UNCHANGED <<detSrv, details, detailsLoading, detailsError, submitting,
                 calVars, pipeVars, loginVars>>

\* loadCustomerDetails resumes: setDetails(data) or setError, then
\* setLoading(false); called from handleStatusChange, the handler's finally
\* clears submitting.
loadCustomerDetailsReturns(c) ==
  /\ c.pc = "load" /\ c.res # "none"
  /\ IF c.res = "error"
     THEN detailsError' = "load" /\ UNCHANGED details
     ELSE details' = c.res /\ UNCHANGED detailsError
  /\ detailsLoading' = FALSE
  /\ submitting' = IF c.kind = "status" THEN FALSE ELSE submitting
  /\ detCalls' = detCalls (-) SetToBag({c})
  /\ UNCHANGED <<detSrv, calVars, pipeVars, loginVars>>

\* The comment form is submitted (its button is disabled while submitting).
handleCommentSubmit ==
  /\ DetailsRendered
  /\ ~submitting
  /\ submitting' = TRUE
  /\ detCalls' = detCalls (+) SetToBag({DetCall("comment", "insert", "-")})
  /\ UNCHANGED <<detSrv, details, detailsLoading, detailsError, calVars, pipeVars, loginVars>>

\* The insert of the comment resolves: on success the handler goes on to
\* loadComments, otherwise catch and finally run.
CommentInsertReturns(c) ==
  /\ c.pc = "insert"
  /\ \/ /\ detCalls' = (detCalls (-) SetToBag({c}))
                         (+) SetToBag({DetCall(c.kind, "loadComments", "-")})
        /\ UNCHANGED <<detailsError, submitting>>
     \/ /\ detailsError' = "comment"
        /\ submitting' = FALSE
        /\ detCalls' = detCalls (-) SetToBag({c})
  /\ UNCHANGED <<detSrv, details, detailsLoading, calVars, pipeVars, loginVars>>

\* loadComments resumes with the thread or with an error.
loadCommentsReturns(c) ==
  /\ c.pc = "loadComments"
  /\ \E ok \in BOOLEAN :
       detailsError' = IF ok THEN detailsError ELSE "comments"
  /\ submitting' = IF c.kind = "comment" THEN FALSE ELSE submitting
  /\ detCalls' = detCalls (-) SetToBag({c})
  /\ UNCHANGED <<detSrv, details, detailsLoading, calVars, pipeVars, loginVars>>

\* Somebody else (the pipeline, another administrator) changes the status.
Details_ExternalChange(newStatus) ==
  /\ newStatus # detSrv
  /\ detSrv' = newStatus
  /\ UNCHANGED <<details, detailsLoading, detailsError, submitting, detCalls,
                 calVars, pipeVars, loginVars>>

DetNext ==
  \/ \E s \in Statuses : Details_handleStatusChange(s)
  \/ \E c \in BagToSet(detCalls) : Details_UpdateReturns(c)
  \/ \E c \in BagToSet(detCalls) : CustomerDetailsServed(c)
  \/ \E c \in BagToSet(detCalls) : loadCustomerDetailsReturns(c)
  \/ handleCommentSubmit
  \/ \E c \in BagToSet(detCalls) : CommentInsertReturns(c)
  \/ \E c \in BagToSet(detCalls) : loadCommentsReturns(c)
  \/ \E s \in Statuses : Details_ExternalChange(s)

SpecDetails == DetInit /\ [][DetNext]_vars

(* ----------------------------- AdminLogin ----------------------------- *)
\* Time is counted in minutes.  The form is the one mounted by the page;
\* a reload of the page mounts it again.

MAX_LOGIN_ATTEMPTS == 5

\* 15 * 60 * 1000 ms, in minutes.
LOCKOUT_DURATION == 15

\* lockoutUntil && lockoutUntil > Date.now()
LockedOut == lockoutUntil # 0 /\ lockoutUntil > now

Idle == [pc |-> "idle", attempts |-> 0]

LoginInit ==
  /\ CalIdle
  /\ PipeIdle
  /\ DetIdle
  /\ now = 0
  /\ loginAttempts = 0
  /\ lockoutUntil = 0
  /\ storedLockout = 0
  /\ isLoading = FALSE
  /\ loginError = ""
  /\ submission = Idle
  /\ loggedIn = FALSE

\* Mutant of handleSubmit: the lockout test is missing.
handleSubmit_NoLockoutTest ==
  /\ submission.pc = "idle" /\ ~isLoading /\ ~loggedIn
  /\ loginError' = ""
  /\ isLoading' = TRUE
  /\ submission' = [pc |-> "signIn", attempts |-> loginAttempts]
  /\ UNCHANGED <<now, loginAttempts, lockoutUntil, storedLockout, loggedIn,
                 calVars, pipeVars, detVars>>

\* The form is submitted: handleSubmit up to its first await.  During a
\* lockout it sets the message and returns; otherwise it calls
\* signInWithPassword.  The invocation keeps the loginAttempts of the render
\* it was created in.
handleSubmit ==
  /\ submission.pc = "idle" /\ ~isLoading /\ ~loggedIn
  /\ IF LockedOut
     THEN /\ loginError' = "lockout"
          /\ UNCHANGED <<isLoading, submission>>
     ELSE /\ loginError' = ""
          /\ isLoading' = TRUE
          /\ submission' = [pc |-> "signIn", attempts |-> loginAttempts]
  /\ UNCHANGED <<now, loginAttempts, lockoutUntil, storedLockout, loggedIn,
                 calVars, pipeVars, detVars>>

\* const newAttempts = loginAttempts + 1, with the loginAttempts of the
\* invocation; at MAX_LOGIN_ATTEMPTS the lockout is set and stored.
handleLoginFailure ==
  LET newAttempts == submission.attempts + 1
  IN /\ loginAttempts' = newAttempts
     /\ IF newAttempts >= MAX_LOGIN_ATTEMPTS
        THEN /\ lockoutUntil' = now + LOCKOUT_DURATION
             /\ storedLockout' = now + LOCKOUT_DURATION
        ELSE UNCHANGED <<lockoutUntil, storedLockout>>

\* catch and finally of handleSubmit.
LoginFails(message) ==
  /\ loginError' = message
  /\ handleLoginFailure
  /\ isLoading' = FALSE
  /\ submission' = Idle
  /\ UNCHANGED <<now, loggedIn, calVars, pipeVars, detVars>>

\* signInWithPassword resolves: with an error (thrown by the handler) or
\* with the user, and the handler asks for the profile.
SignInReturns ==
  /\ submission.pc = "signIn"
  /\ \/ \E message \in {"credentials", "unexpected"} : LoginFails(message)
     \/ /\ submission' = [submission EXCEPT !.pc = "profile"]
        /\ UNCHANGED <<now, loginAttempts, lockoutUntil, storedLockout,
                       isLoading, loginError, loggedIn,
                       calVars, pipeVars, detVars>>

\* The profile query resolves: an error or a profile without is_admin is
\* thrown; for an administrator the counter and the stored lockout are
\* cleared and the handler goes on to the audit record.
ProfileReturns ==
  /\ submission.pc = "profile"
  /\ \/ \E message \in {"notadmin", "unexpected"} : LoginFails(message)
     \/ /\ loginAttempts' = 0
        /\ storedLockout' = 0
        /\ submission' = [submission EXCEPT !.pc = "audit"]
        /\ UNCHANGED <<now, lockoutUntil, isLoading, loginError, loggedIn,
                       calVars, pipeVars, detVars>>

\* The audit step ends: the lookup of the IP address or the insert into
\* admin_actions throws (caught by the same catch), or the insert returns
\* and onLogin is called.
AuditReturns ==
  /\ submission.pc = "audit"
  /\ \/ LoginFails("unexpected")
     \/ /\ loggedIn' = TRUE
        /\ isLoading' = FALSE
        /\ submission' = Idle
        /\ UNCHANGED <<now, loginAttempts, lockoutUntil, storedLockout,
                       loginError, calVars, pipeVars, detVars>>

\* A minute passes.
Tick ==
  /\ now < MaxTime
  /\ now' = now + 1
  /\ UNCHANGED <<loginAttempts, lockoutUntil, storedLockout, isLoading,
                 loginError, submission, loggedIn, calVars, pipeVars, detVars>>

\* The page is loaded again: fresh state, and the mount effect re-applies a
\* stored lockout that is still running and removes one that is over.
LoginMounts ==
  /\ submission.pc = "idle" /\ ~loggedIn
  /\ loginAttempts' = 0
  /\ isLoading' = FALSE
  /\ loginError' = ""
  /\ IF storedLockout # 0 /\ storedLockout > now
     THEN lockoutUntil' = storedLockout /\ UNCHANGED storedLockout
     ELSE lockoutUntil' = 0 /\ storedLockout' = 0
  /\ UNCHANGED <<now, submission, loggedIn, calVars, pipeVars, detVars>>

LoginNext ==
  \/ handleSubmit
  \/ SignInReturns
  \/ ProfileReturns
  \/ AuditReturns
  \/ Tick
  \/ LoginMounts

SpecLogin == LoginInit /\ [][LoginNext]_vars

(* ------------- the pipeline or the details view is mounted ------------ *)

ViewsInit == PipeInit \/ DetInit

\* Only the component that is mounted takes steps.
ViewsNext ==
  \/ ~PipeIdle /\ PipeNext
  \/ ~DetIdle /\ DetNext

SpecViews == ViewsInit /\ [][ViewsNext]_vars

(* --------------------- properties of the pipeline --------------------- *)

\* The update calls for reservation id that have been sent and not resolved.
UpdatesInFlight(id) ==
  LET S == {c \in BagToSet(calls) : c.pc = "rpc" /\ c.id = id}
  IN BagCardinality([c \in S |-> calls[c]])

\* C1: status changes are serialized per reservation: while an update call
\* for a reservation has not resolved, no second update call for it reaches
\* the persistence collaborator.
C1_OneUpdateInFlightPerReservation ==
  \A id \in ResIds : UpdatesInFlight(id) <= 1

\* C2: a drag-end sends an update call only for a column other than the one
\* the dragged card sits in: a drop on the card's own column sends nothing.
C2_DropOnOwnColumnSendsNothing ==
  [][\A c \in BagToSet(calls') :
       (c.kind = "drag" /\ c.pc = "rpc" /\ CopiesIn(c, calls') > CopiesIn(c, calls))
         => c.newStatus # ColumnOf(c.id)]_vars

\* C9: a reload replaces the view: when loadPipelineData returns with a
\* reply, the columns on view become exactly the reply's (none when the
\* reply has none); and the columns on view are always the initial empty
\* view or one whole snapshot of the persistence collaborator.
IsSnapshot(cols) == \E s \in [ResIds -> Statuses] : cols = PipelineSnapshot(s)

C9_ReloadReplacesView ==
  /\ [](columns = <<>> \/ IsSnapshot(columns))
  /\ [][\A c \in BagToSet(calls) :
          (c.pc = "load" /\ c.res \in {"data", "nodata"} /\ calls' = calls (-) SetToBag({c}))
            => columns' = (IF c.res = "data" THEN c.cols ELSE <<>>)]_vars

\* A reload has replaced an earlier board: the card of r1 sits in a column
\* ("completed") it can only have reached through a button of the board.
C9_Witness ==
  /\ calls = EmptyBag /\ ~loading
  /\ ColumnOf("r1") = "completed"
  /\ columns = PipelineSnapshot(srv)

\* C11: when the persistence collaborator refuses a status change (the
\* update call returns an error result: the status and the pending
\* notifications stay as they were), the card stays in its column and the
\* refusal is surfaced as an error.
C11_RefusalSurfaced ==
  [][\A c \in BagToSet(calls) :
       (/\ c.pc = "rpc"
        /\ CopiesIn(c, calls') < CopiesIn(c, calls)
        /\ srv' = srv /\ notes' = notes
        /\ BagCardinality(calls') = BagCardinality(calls))
         => (columns' = columns /\ error' # "null")]_vars

\* C12: asking for a transition changes nothing in the local view; the
\* columns of the pipeline and the status shown by the details view change
\* only in the step in which a load adopts the reply of the collaborator.
C12_ViewChangesOnlyByAdoption ==
  [][/\ columns' # columns =>
          \E c \in BagToSet(calls) :
             /\ c.pc = "load" /\ c.res \in {"data", "nodata"}
             /\ calls' = calls (-) SetToBag({c})
             /\ columns' = LoadedColumns(c)
     /\ details' # details =>
          \E c \in BagToSet(detCalls) :
             /\ c.pc = "load" /\ c.res \in Statuses
             /\ detCalls' = detCalls (-) SetToBag({c})
             /\ details' = c.res
     /\ (\/ BagCardinality(calls') > BagCardinality(calls)
         \/ BagCardinality(detCalls') > BagCardinality(detCalls)) =>
          (columns' = columns /\ details' = details)]_vars

\* A change the collaborator has accepted is not yet shown by the pipeline:
\* the handler is still waiting for its reload.
C12_Witness ==
  /\ Rendered
  /\ \E c \in BagToSet(calls) : c.kind = "status" /\ c.pc = "load"
  /\ ColumnOf("r1") # "null" /\ ColumnOf("r1") # srv["r1"]

\* C13: the details view refuses no transition on grounds of legality: when
\* it shows a reservation of status s and no request is being submitted,
\* then for each of the six statuses t # s the button of t can be pressed,
\* and pressing it sends the request for t to the collaborator.
C13_NoLocalLegalityCheck ==
  (DetailsRendered /\ ~submitting) =>
    \A t \in Statuses \ {details} :
      ENABLED (/\ Details_handleStatusChange(t)
               /\ DetCall("status", "rpc", t) \in BagToSet(detCalls'))

\* A request to take a completed reservation back to pending is on its way.
C13_Witness ==
  /\ details = "completed"
  /\ \E c \in BagToSet(detCalls) : c.pc = "rpc" /\ c.newStatus = "pending"

\* The status buttons the lifecycle pending -> confirmed -> picked_up ->
\* completed gives a card: the next status, and cancelled from every status
\* that is not terminal.
LifecycleButtons(columnId) ==
  CASE columnId = "pending" -> {"confirmed", "cancelled"}
    [] columnId = "confirmed" -> {"picked_up", "cancelled"}
    [] columnId = "picked_up" -> {"completed", "cancelled"}
    [] OTHER -> {}

\* C14: the buttons of a card on the board are those of the lifecycle: a
\* confirmed card offers picked_up (never completed), cancelled is offered
\* from pending, confirmed and picked_up, and completed, cancelled and
\* archived cards offer nothing.
C14_CardButtonsFollowLifecycle ==
  Rendered =>
    \A id \in ResIds :
      ColumnOf(id) # "null" =>
        CardButtons(ColumnOf(id)) = LifecycleButtons(ColumnOf(id))

\* The tiers of the label policy, by the number of days of the reservation
\* counted inclusively.
LabelTier(length) ==
  IF length >= 4 THEN "full" ELSE IF length >= 2 THEN "short" ELSE "day"

\* The label of each tier for reservation r in a cell cw wide.
TierLabel(tier, r, cw) ==
  LET last == r.customer.last_name
      first == r.customer.first_name
  IN CASE tier = "full" ->
            last \o <<" ">> \o first \o
            <<"\n", ToString(Dom(r.start)), ".", ToString(MonthOf(r.start)),
              " ", r.start_time, " - ", ToString(Dom(r.end)), ".",
              ToString(MonthOf(r.end)), " ", r.end_time>>
       [] tier = "short" ->
            (IF cw < 100 THEN last \o <<" ", first[1], ".">>
                         ELSE last \o <<" ">> \o first) \o
            <<"\n", ToString(Dom(r.start)), "-", ToString(Dom(r.end))>>
       [] OTHER -> last \o <<"\n", ToString(Dom(r.start))>>

\* C15: the label of a shown reservation is the label of the tier of its
\* length in days counted inclusively (end - start + 1): 1 day, 2-3 days,
\* 4 days or more.
C15_TierByInclusiveLength ==
  \A item \in Range(equipment) : \A k \in 1..getDaysInMonth :
    Cell(item, k - 1).kind = "span" =>
      LET r == itemReservations(item)[FindReservation(item, k - 1)]
      IN CellContent(item, k - 1) =
           TierLabel(LabelTier(r.end - r.start + 1), r, cellWidth)

\* C16: the label of a reservation of one day (start = end) is its
\* customer's surname, a line break and the day of the month of its start,
\* whatever the width of the cell and whatever the first name.
C16_OneDayLabel ==
  (\E q \in Range(reservations) : q.start = q.end) =>
    \A item \in Range(equipment) : \A k \in 1..getDaysInMonth :
      LET r == itemReservations(item)[FindReservation(item, k - 1)]
          label == r.customer.last_name \o <<"\n", ToString(Dom(r.start))>>
      IN (Cell(item, k - 1).kind = "span" /\ r.start = r.end) =>
           /\ CellContent(item, k - 1) = label
           /\ \A cw \in {cellWidth, 99, 100, 240} :
              \A first \in {<<"J", "a", "n">>, <<"A", "n", "n", "a">>, <<"Z">>} :
              \A isMultiDay \in BOOLEAN :
                getReservationContent(
                  [r EXCEPT !.customer.first_name = first], cw, isMultiDay)
                  = label

\* The calendar shows the span element of a reservation of one day.
C16_Witness ==
  \E item \in Range(equipment) : \E k \in 1..getDaysInMonth :
    /\ Cell(item, k - 1).kind = "span"
    /\ LET r == itemReservations(item)[FindReservation(item, k - 1)]
       IN r.start = r.end /\ k = Dom(r.start)

\* C18: the error state of the pipeline is not absorbing: when a load
\* returns with the data of the collaborator, the view shows the board,
\* also after an earlier failure.
C18_SuccessfulReloadShowsBoard ==
  [][\A c \in BagToSet(calls) :
       (/\ c.pc = "load" /\ c.res = "data"
        /\ calls' = calls (-) SetToBag({c}))
         => Rendered']_vars

\* C19: a failed load of the pipeline is retried by the pipeline itself: in
\* the step in which a load returns with an error, a further load is under
\* way without any action of the user and without any notification.
C19_FailedLoadIsRetried ==
  [][\A c \in BagToSet(calls) :
       (/\ c.pc = "load" /\ c.res = "error"
        /\ calls' = calls (-) SetToBag({c}))
         => \E d \in BagToSet(calls') : d.pc = "load"]_vars

\* C20: no grid is built for a window whose end is before its start: when
\* the calendar shows its grid, the window [monthStart, monthEnd] it is
\* built for has monthStart <= monthEnd and holds the getDaysInMonth days
\* of the row, and the window of every query under way is ordered too.
C20_GridWindowIsOrdered ==
  /\ ~calLoading =>
       (monthStart <= monthEnd /\ monthEnd - monthStart + 1 = getDaysInMonth)
  /\ \A f \in BagToSet(fetches) : MkDate(f.win, 1) <= MkDate(f.win, DaysIn(f.win))

\* The calendar shows a grid with a span element in it.
C20_Witness ==
  /\ ~calLoading
  /\ \E item \in Range(equipment) : \E k \in 1..getDaysInMonth :
       Cell(item, k - 1).kind = "span"

\* C21: overlapping reloads cannot leave the board stale: when the board is
\* shown, every load has returned and every change has been notified, the
\* columns are the snapshot of the collaborator's present state.
C21_QuiescentViewIsCurrent ==
  (/\ Rendered /\ columns # <<>>
   /\ calls = EmptyBag /\ notes = 0)
    => columns = PipelineSnapshot(srv)

\* C22: every status change sent to the collaborator asks for one of the
\* six statuses; a drag-end never sends the id of a card as the new status.
C22_NewStatusIsAStatus ==
  \A c \in BagToSet(calls) : c.pc = "rpc" => c.newStatus \in Statuses

\* C24: every drag-end clears the pinned id: after a step that ends the drag
\* (the board staying on view), activeId is null, or the handler is still
\* waiting for its update and reload and will clear it when it finishes.
C24_DragEndClearsActiveId ==
  [][(dragging # "null" /\ dragging' = "null" /\ ~loading')
       => \/ activeId' = "null"
          \/ \E c \in BagToSet(calls') : c.kind = "drag"]_vars

\* C25: a click on 'next' or 'previous' moves the calendar by exactly one
\* month, from any day of the month.
C25_NavigationMovesOneMonth ==
  [][currentDate' # currentDate
       => currentDate'.m \in {currentDate.m - 1, currentDate.m + 1}]_vars

\* C30: the loading state of the calendar ends: once no reservation query
\* is under way, whether the last one succeeded or failed, the calendar is
\* off its spinner.
C30_LoadingEnds ==
  fetches = EmptyBag => ~calLoading

\* C26: the subscription is released with the view: while no Pipeline is
\* mounted no channel is subscribed, and however often the view has been
\* mounted at most one channel is.
C26_SubscriptionReleased ==
  /\ ~mounted => channels = 0
  /\ channels <= 1

\* C27: while a lockout is running, no step (a submission of the form, a
\* reload of the page) starts a sign-in, raises the failed-attempt counter,
\* moves the lockout in the component or in localStorage, or calls onLogin;
\* a reload keeps the stored lockout in force.
C27_LockoutHolds ==
  [][LockedOut =>
       /\ submission' = Idle
       /\ loginAttempts' <= loginAttempts
       /\ lockoutUntil' = lockoutUntil
       /\ storedLockout' = storedLockout
       /\ storedLockout = lockoutUntil
       /\ loggedIn' = loggedIn]_vars

\* The form has been submitted during a lockout that was re-applied by a
\* reload of the page (the counter of the new mount is 0).
C27_Witness ==
  LockedOut /\ loginError = "lockout" /\ loginAttempts = 0

\* C28: a lockout starts exactly at the 5th failed attempt since the last
\* successful login or the last lockout that ran out: in every step that
\* stores a new lockout the counter of these failures reaches
\* MAX_LOGIN_ATTEMPTS, also after an earlier lockout has run out without a
\* reload of the page.
C28_LockoutAtFifthFailure ==
  [][(storedLockout' # storedLockout /\ storedLockout' # 0)
       => loginAttempts' = MAX_LOGIN_ATTEMPTS]_vars

\* C29: onLogin is called exactly when the sign-in succeeded and the profile
\* is an administrator's: it is called only from the audit step, and when
\* the audit step ends, however it ends, onLogin is called and the
\* failed-attempt counter stays as it is.
C29_AuditFailureIsHarmless ==
  [][/\ (loggedIn' /\ ~loggedIn) => submission.pc = "audit"
     /\ (submission.pc = "audit" /\ submission'.pc = "idle")
          => (loggedIn' /\ loginAttempts' = loginAttempts)]_vars

====
